---- MODULE Spec2Model ----
(***************************************************************************)
(* A model of pneumatic: the bounded-worker file discovery engine and the  *)
(* transfer-plan builder (src/src/transfer.rs), the encrypted framed       *)
(* channel (src/src/crypto.rs), and the server with its clients            *)
(* (src/src/server.rs, src/src/client.rs).  Each part has its own          *)
(* specification; the variables of the other parts stay at their initial   *)
(* values.                                                                 *)
(***************************************************************************)
EXTENDS Integers, Sequences, FiniteSets, TLC

(***************************************************************************)
(* Bounds of the model.                                                    *)
(***************************************************************************)
\* Directories of a tree are 1..n for some n <= MaxDirs; 1 is the root.
MaxDirs == 3
\* Files of a tree are 1..m for some m <= MaxFiles.
MaxFiles == 1
\* transfer.rs:75 sets CONCURRENCY_LIMIT to 16; the model runs this many
\* worker tasks.
CONCURRENCY_LIMIT == 2
\* bin/server.rs:25 creates the output channel with capacity 16; the model
\* uses this capacity.
ChannelCapacity == 1
\* TransferPlan::create is called with at most this many files.
MaxPlanFiles == 3
\* Objects passed to send_bincode over one connection, both peers together.
MaxMessages == 3
\* Clients that connect to the server; client c has the address c.
MaxClients == 2
\* Greetings a client passes to send_message before it is dropped.
MaxGreetings == 1

VARIABLES
    \* ---- the filesystem under the discovery root (environment) ----
    parent,             \* parent[d]: parent directory of d (0 for the root)
    fileDir,            \* fileDir[f]: directory holding file f
    \* ---- discover_files_recursively ----
    processing_queue,   \* SegQueue<PathBuf>
    folders_to_process, \* AtomicU64
    wpc,                \* wpc[w]: position of worker task w
    wpath,              \* wpath[w]: directory popped by w (0: none)
    wentries,           \* wentries[w]: the entries file_stream has yet to yield
    wpending,           \* wpending[w]: sub-directory counted but not yet pushed
    wfiles,             \* wfiles[w]: the local Vec `files`
    output,             \* the mpsc channel's buffer: a sequence of batches
    discoverResult,     \* "running", or the value discover_files_recursively returned
    batches,            \* batches[d]: the batches sent for directory d, in order
    decremented,        \* the directories whose fetch_sub was done
    \* ---- the consumer (bin/server.rs reporter task) ----
    all_files,          \* the reporter's Vec
    reporterDone,       \* TRUE once recv() returned None
    \* ---- TransferPlan::create ----
    planFiles,          \* the argument `files`: planFiles[k] is the size of file k
    planConfig,         \* the argument `config`: the two optional thresholds
    planPc,             \* "idle", "call" (create is called), "done"
    planSorted,         \* `files` after sort_unstable_by_key, as file numbers
    planStatus,         \* "none", "computed" (line 165 reached) or "panic"
    small_files,        \* the three slices, as sequences of file numbers
    single_chunk_files,
    large_files,
    \* ---- EncryptedStream: one TCP connection and its two peers ----
    hpc,                \* hpc[p]: position of peer p in EncryptedStream::new
    my_private_key,     \* my_private_key[p]
    peer_public_key,    \* peer_public_key[p]
    my_salt,            \* my_salt[p]
    other_salt,         \* other_salt[p]
    keys,               \* keys[p]: the two bound keys and their NonceCounters
    wire,               \* wire[p]: bytes written to p's socket and not yet read
    spc,                \* spc[p]: position of p in send_buffer
    sbuf,               \* sbuf[p]: the sealed buffer send_buffer still has to write
    rpc,                \* rpc[p]: position of p in receive_buffer
    rlen,               \* rlen[p]: buffer_length read by receive_buffer
    sent,               \* sent[p]: the objects p passed to send_bincode
    received,           \* received[p]: the objects receive_bincode returned to p
    sealLog,            \* every (key, nonce) a seal has used, in order
    \* ---- the network between the two peers (environment) ----
    tampered,           \* <<>>, or <<q, k>>: a byte of the k-th frame sent to q was altered
    \* ---- Server::start_new: the accept loop task and the registry ----
    listener,           \* the TcpListener's queue of connections not yet accepted
    apc,                \* position of the accept loop task
    accepted,           \* `address` of the connection the accept loop has in hand (0: none)
    sread,              \* what the accept loop's handshake has read so far
    connection,         \* connection[c]: the server's Connection to c, once returned
    sessions,           \* Server.sessions: the addresses that have an entry
    control,            \* the mpsc channel of ControlMessages (sender -> receiver)
    disconnected,       \* the addresses whose ControlMessage::Disconnect was matched
    \* ---- Server::handle_client, one task per connection ----
    handler,            \* handler[c]: position of the handler task of c
    handled,            \* handled[c]: the messages connection.receive returned
    \* ---- Client ----
    cpc,                \* cpc[c]: position of the owner of Client c
    cread,              \* cread[c]: what c's handshake has read so far
    client_connection,  \* client_connection[c]: Client.connection, once connect returned
    dpc,                \* dpc[c]: position of the task Drop spawned
    client_sent,        \* client_sent[c]: the messages c sealed and wrote
    \* ---- the TCP connections ----
    to_server,          \* to_server[c]: written by c, not yet read by the server
    to_client,          \* to_client[c]: written by the server, not yet read by c
    corrupted           \* the address whose connection had a frame corrupted (0: none)

dvars == <<parent, fileDir, processing_queue, folders_to_process,
           wpc, wpath, wentries, wpending, wfiles, output, discoverResult,
           batches, decremented, all_files, reporterDone>>

pvars == <<planFiles, planConfig, planPc, planSorted, planStatus,
           small_files, single_chunk_files, large_files>>

cvars == <<hpc, my_private_key, peer_public_key, my_salt, other_salt, keys,
           wire, spc, sbuf, rpc, rlen, sent, received, sealLog, tampered>>

svars == <<listener, apc, accepted, sread, connection, sessions, control,
           disconnected, handler, handled, cpc, cread, client_connection, dpc,
           client_sent, to_server, to_client, corrupted>>

vars == <<dvars, pvars, cvars, svars>>

\* The variables of the other parts, which an action of a part leaves alone.
NotDiscovery == <<pvars, cvars, svars>>

NotPlan == <<dvars, cvars, svars>>

NotChannel == <<dvars, pvars, svars>>

NotServer == <<dvars, pvars, cvars>>

(***************************************************************************)
(* Helpers                                                                 *)
(***************************************************************************)
Range(s) == {s[i] : i \in DOMAIN s}

Workers == 1..CONCURRENCY_LIMIT

Root == 1

Dirs == DOMAIN parent

Files == DOMAIN fileDir

\* The members of the set S of numbers, in increasing order.
RECURSIVE Ascending(_)
Ascending(S) ==
    IF S = {} THEN <<>>
    ELSE LET m == CHOOSE x \in S : \A y \in S : x <= y
         IN  <<m>> \o Ascending(S \ {m})

Tag(kind, s) == [i \in DOMAIN s |-> <<kind, s[i]>>]

\* The entries read_dir yields for directory d, in the order the stream
\* yields them: its sub-directories, then its files.
Entries(d) ==
    Tag("dir", Ascending({c \in Dirs : parent[c] = d}))
        \o Tag("file", Ascending({f \in Files : fileDir[f] = d}))

\* The trees the model starts from: every shape over 1..n directories in
\* which a directory's parent has a smaller number, every placement of
\* 0..MaxFiles files, placed in non-decreasing directory order.
Trees ==
    UNION {
        {p \in [1..n -> 0..n] :
            /\ p[1] = 0
            /\ \A d \in 2..n : p[d] \in 1..(d - 1)}
        : n \in 1..MaxDirs}

Placements(n) ==
    UNION {
        {fd \in [1..m -> 1..n] : \A f \in 1..m : \A g \in 1..m : f <= g => fd[f] <= fd[g]}
        : m \in 0..MaxFiles}

\* Number of times file f occurs in the sequence of batches bs.
RECURSIVE CountIn(_, _)
CountIn(f, s) ==
    IF s = <<>> THEN 0
    ELSE (IF Head(s) = f THEN 1 ELSE 0) + CountIn(f, Tail(s))

RECURSIVE Flatten(_)
Flatten(bs) ==
    IF bs = <<>> THEN <<>> ELSE Head(bs) \o Flatten(Tail(bs))

\* Every file sent on the output channel so far: what the consumer has
\* taken, then what is still buffered.
Emitted == all_files \o Flatten(output)

(***************************************************************************)
(* discover_files_recursively: construction (transfer.rs:68-71)            *)
(***************************************************************************)
DiscoveryInit ==
    /\ parent \in Trees
    /\ fileDir \in Placements(Cardinality(DOMAIN parent))
    /\ processing_queue = <<Root>>
    /\ folders_to_process = 1
    /\ wpc = [w \in Workers |-> "loop"]
    /\ wpath = [w \in Workers |-> 0]
    /\ wentries = [w \in Workers |-> <<>>]
    /\ wpending = [w \in Workers |-> 0]
    /\ wfiles = [w \in Workers |-> <<>>]
    /\ output = <<>>
    /\ discoverResult = "running"
    /\ batches = [d \in DOMAIN parent |-> <<>>]
    /\ decremented = {}
    /\ all_files = <<>>
    /\ reporterDone = FALSE

\* A filesystem call returned an Err and `?` ended the worker task: its
\* locals are dropped.  Any call may fail.
Failed(w) ==
    /\ wpc' = [wpc EXCEPT ![w] = "failed"]
    /\ wpath' = [wpath EXCEPT ![w] = 0]
    /\ wentries' = [wentries EXCEPT ![w] = <<>>]
    /\ wpending' = [wpending EXCEPT ![w] = 0]
    /\ wfiles' = [wfiles EXCEPT ![w] = <<>>]

\* transfer.rs:85-87: leave the loop when no directory is outstanding.
LoadCounter(w) ==
    /\ wpc[w] = "loop"
    /\ UNCHANGED NotDiscovery
    /\ wpc' = [wpc EXCEPT ![w] = IF folders_to_process = 0 THEN "exited" ELSE "pop"]
    /\ UNCHANGED <<parent, fileDir, processing_queue, folders_to_process,
                   wpath, wentries, wpending, wfiles, output, discoverResult,
                   all_files, reporterDone, batches, decremented>>

\* Pop with the counter taken for the length of the queue: the pop decrements
\* it.
PopDecrements(w) ==
    /\ wpc[w] = "pop"
    /\ UNCHANGED NotDiscovery
    /\ IF processing_queue = <<>>
       THEN /\ wpc' = [wpc EXCEPT ![w] = "loop"]
            /\ UNCHANGED <<processing_queue, wpath, folders_to_process>>
       ELSE /\ wpath' = [wpath EXCEPT ![w] = Head(processing_queue)]
            /\ processing_queue' = Tail(processing_queue)
            /\ folders_to_process' = folders_to_process - 1
            /\ wpc' = [wpc EXCEPT ![w] = "read_dir"]
    /\ UNCHANGED <<parent, fileDir,
                   wentries, wpending, wfiles, output, discoverResult,
                   all_files, reporterDone, batches, decremented>>

\* transfer.rs:89-95: pop a directory, or yield and retry.
Pop(w) ==
    /\ wpc[w] = "pop"
    /\ UNCHANGED NotDiscovery
    /\ IF processing_queue = <<>>
       THEN /\ wpc' = [wpc EXCEPT ![w] = "loop"]
            /\ UNCHANGED <<processing_queue, wpath>>
       ELSE /\ wpath' = [wpath EXCEPT ![w] = Head(processing_queue)]
            /\ processing_queue' = Tail(processing_queue)
            /\ wpc' = [wpc EXCEPT ![w] = "read_dir"]
    /\ UNCHANGED <<parent, fileDir, folders_to_process,
                   wentries, wpending, wfiles, output, discoverResult,
                   all_files, reporterDone, batches, decremented>>

\* transfer.rs:97-98: read_dir(path).await?, then files = Vec::new().
ReadDir(w) ==
    /\ wpc[w] = "read_dir"
    /\ UNCHANGED NotDiscovery
    /\ \/ /\ wentries' = [wentries EXCEPT ![w] = Entries(wpath[w])]
          /\ wfiles' = [wfiles EXCEPT ![w] = <<>>]
          /\ wpc' = [wpc EXCEPT ![w] = "next_entry"]
          /\ UNCHANGED <<wpath, wpending>>
       \/ Failed(w)
    /\ UNCHANGED <<parent, fileDir, processing_queue, folders_to_process,
                   output, discoverResult, all_files, reporterDone, batches, decremented>>

\* transfer.rs:100-111 without the counter and queue updates: the next
\* entry, its file type, and for a file its metadata.
NextEntry(w) ==
    /\ wpc[w] = "next_entry"
    /\ UNCHANGED NotDiscovery
    /\ \/ /\ wentries[w] = <<>>
          /\ wpc' = [wpc EXCEPT ![w] = "send"]
          /\ UNCHANGED <<wpath, wentries, wpending, wfiles>>
       \/ /\ wentries[w] # <<>>
          /\ LET e == Head(wentries[w])
             IN  /\ wentries' = [wentries EXCEPT ![w] = Tail(@)]
                 /\ IF e[1] = "dir"
                    THEN /\ wpending' = [wpending EXCEPT ![w] = e[2]]
                         /\ wpc' = [wpc EXCEPT ![w] = "fetch_add"]
                         /\ UNCHANGED wfiles
                    ELSE /\ wfiles' = [wfiles EXCEPT ![w] = Append(@, e[2])]
                         /\ UNCHANGED <<wpc, wpending>>
          /\ UNCHANGED wpath
       \/ /\ wentries[w] # <<>>
          /\ Failed(w)
    /\ UNCHANGED <<parent, fileDir, processing_queue, folders_to_process,
                   output, discoverResult, all_files, reporterDone, batches, decremented>>

\* FetchAdd with the increment left out: the sub-directory is pushed
\* without being counted.
FetchAddLost(w) ==
    /\ wpc[w] = "fetch_add"
    /\ UNCHANGED NotDiscovery
    /\ wpc' = [wpc EXCEPT ![w] = "push"]
    /\ UNCHANGED <<parent, fileDir, processing_queue, folders_to_process,
                   wpath, wentries, wpending, wfiles, output, discoverResult,
                   all_files, reporterDone, batches, decremented>>

\* transfer.rs:105: folders_to_process.fetch_add(1).
FetchAdd(w) ==
    /\ wpc[w] = "fetch_add"
    /\ UNCHANGED NotDiscovery
    /\ folders_to_process' = folders_to_process + 1
    /\ wpc' = [wpc EXCEPT ![w] = "push"]
    /\ UNCHANGED <<parent, fileDir, processing_queue,
                   wpath, wentries, wpending, wfiles, output, discoverResult,
                   all_files, reporterDone, batches, decremented>>

\* transfer.rs:106: queue.push(path).
Push(w) ==
    /\ wpc[w] = "push"
    /\ UNCHANGED NotDiscovery
    /\ processing_queue' = Append(processing_queue, wpending[w])
    /\ wpending' = [wpending EXCEPT ![w] = 0]
    /\ wpc' = [wpc EXCEPT ![w] = "next_entry"]
    /\ UNCHANGED <<parent, fileDir, folders_to_process,
                   wpath, wentries, wfiles, output, discoverResult,
                   all_files, reporterDone, batches, decremented>>

\* Send that sends nothing for a directory without files.
SendSkipsEmpty(w) ==
    /\ wpc[w] = "send"
    /\ UNCHANGED NotDiscovery
    /\ IF wfiles[w] = <<>>
       THEN UNCHANGED <<output, batches>>
       ELSE /\ Len(output) < ChannelCapacity
            /\ output' = Append(output, wfiles[w])
            /\ batches' = [batches EXCEPT ![wpath[w]] = Append(@, wfiles[w])]
    /\ wfiles' = [wfiles EXCEPT ![w] = <<>>]
    /\ wpc' = [wpc EXCEPT ![w] = "fetch_sub"]
    /\ UNCHANGED <<parent, fileDir, processing_queue, folders_to_process,
                   wpath, wentries, wpending, discoverResult,
                   all_files, reporterDone, decremented>>

\* transfer.rs:114: output.send(Files(files)).await?; waits while the
\* channel is full.  The receiver is never dropped before the channel is
\* closed (bin/server.rs:37-46), so the send does not fail.
Send(w) ==
    /\ wpc[w] = "send"
    /\ UNCHANGED NotDiscovery
    /\ Len(output) < ChannelCapacity
    /\ output' = Append(output, wfiles[w])
    /\ batches' = [batches EXCEPT ![wpath[w]] = Append(@, wfiles[w])]
    /\ wfiles' = [wfiles EXCEPT ![w] = <<>>]
    /\ wpc' = [wpc EXCEPT ![w] = "fetch_sub"]
    /\ UNCHANGED <<parent, fileDir, processing_queue, folders_to_process,
                   wpath, wentries, wpending, discoverResult,
                   all_files, reporterDone, decremented>>

\* FetchSub that decrements only after a batch that held files.
FetchSubUnlessEmpty(w) ==
    /\ wpc[w] = "fetch_sub"
    /\ UNCHANGED NotDiscovery
    /\ folders_to_process' =
          IF Entries(wpath[w]) = <<>> THEN folders_to_process ELSE folders_to_process - 1
    /\ decremented' = decremented \cup {wpath[w]}
    /\ wpath' = [wpath EXCEPT ![w] = 0]
    /\ wpc' = [wpc EXCEPT ![w] = "loop"]
    /\ UNCHANGED <<parent, fileDir, processing_queue,
                   wentries, wpending, wfiles, output, discoverResult,
                   all_files, reporterDone, batches>>

\* transfer.rs:116: folders_to_process.fetch_sub(1), then the next iteration.
FetchSub(w) ==
    /\ wpc[w] = "fetch_sub"
    /\ UNCHANGED NotDiscovery
    /\ folders_to_process' = folders_to_process - 1
    /\ decremented' = decremented \cup {wpath[w]}
    /\ wpath' = [wpath EXCEPT ![w] = 0]
    /\ wpc' = [wpc EXCEPT ![w] = "loop"]
    /\ UNCHANGED <<parent, fileDir, processing_queue,
                   wentries, wpending, wfiles, output, discoverResult,
                   all_files, reporterDone, batches>>

Worker(w) ==
    \/ LoadCounter(w)
    \/ Pop(w)
    \/ ReadDir(w)
    \/ NextEntry(w)
    \/ FetchAdd(w)
    \/ Push(w)
    \/ Send(w)
    \/ FetchSub(w)

WorkerEnded(w) == wpc[w] \in {"exited", "failed"}

\* transfer.rs:126-128: join_all(tasks).await; Ok(()).  The tasks' results
\* are discarded.
JoinAll ==
    /\ discoverResult = "running"
    /\ UNCHANGED NotDiscovery
    /\ \A w \in Workers : WorkerEnded(w)
    /\ discoverResult' = "Ok"
    /\ UNCHANGED <<parent, fileDir, processing_queue, folders_to_process,
                   wpc, wpath, wentries, wpending, wfiles, output,
                   all_files, reporterDone, batches, decremented>>

\* The channel is closed when every Sender is dropped: each worker's clone
\* when its task ends, the original when discover_files_recursively returns.
ChannelClosed ==
    /\ \A w \in Workers : WorkerEnded(w)
    /\ discoverResult # "running"

\* bin/server.rs:37-46: the reporter's loop.
Recv ==
    /\ ~reporterDone
    /\ UNCHANGED NotDiscovery
    /\ IF output # <<>>
       THEN /\ all_files' = all_files \o Head(output)
            /\ output' = Tail(output)
            /\ UNCHANGED reporterDone
       ELSE /\ ChannelClosed
            /\ reporterDone' = TRUE
            /\ UNCHANGED <<all_files, output>>
    /\ UNCHANGED <<parent, fileDir, processing_queue, folders_to_process,
                   wpc, wpath, wentries, wpending, wfiles, discoverResult,
                   batches, decremented>>

DiscoveryNext ==
    \/ \E w \in Workers : Worker(w)
    \/ JoinAll
    \/ Recv


(***************************************************************************)
(* ServerConfig (config.rs)                                                *)
(***************************************************************************)
ONE_MEGABYTE == 1000000

DEFAULT_SMALL_FILE_THRESHOLD == ONE_MEGABYTE

DEFAULT_LARGE_FILE_THRESHOLD == 512 * ONE_MEGABYTE

\* Option<T>: None is the empty sequence, Some(v) the sequence <<v>>.
None == <<>>

Some(v) == <<v>>

unwrap_or(option, default) == IF option = None THEN default ELSE option[1]

get_small_file_threshold(config) ==
    unwrap_or(config.small_file_threshold_bytes, DEFAULT_SMALL_FILE_THRESHOLD)

get_large_file_threshold(config) ==
    unwrap_or(config.large_file_threshold_bytes, DEFAULT_LARGE_FILE_THRESHOLD)

(***************************************************************************)
(* TransferPlan::create (transfer.rs:137-173)                              *)
(***************************************************************************)
\* The file sizes and thresholds create is called with.
PlanSizes == {0, 500000, 1000000, 300000000, 600000000}

PlanThresholds == {None, Some(0), Some(500000), Some(300000000), Some(700000000)}

\* The input of the spec's bucketing example.
ExampleFiles == <<0, 500000, 1000000, 300000000, 600000000>>

PlanInputs ==
    UNION {[1..n -> PlanSizes] : n \in 0..MaxPlanFiles} \cup {ExampleFiles}

PlanConfigs ==
    [small_file_threshold_bytes : PlanThresholds,
     large_file_threshold_bytes : PlanThresholds]

\* All arrangements of the members of S in a sequence.
RECURSIVE Orders(_)
Orders(S) ==
    IF S = {} THEN {<<>>}
    ELSE UNION {{<<x>> \o o : o \in Orders(S \ {x})} : x \in S}

\* files.sort_unstable_by_key(|k| k.uncompressed_size): the results the
\* sort may give.  It is ascending by size; the order of files of equal
\* size is not determined.
SortUnstableByKey(files) ==
    {o \in Orders(DOMAIN files) :
        \A a \in DOMAIN o : \A b \in DOMAIN o :
            a < b => files[o[a]] <= files[o[b]]}

\* iter().enumerate().skip(from).skip_while(size < threshold).next().map(i):
\* the first index at or after `from` (0-based) whose file is not below the
\* threshold, or None.
FirstIndexNotBelow(files, sorted, from, threshold) ==
    LET hits == {i \in from..(Len(sorted) - 1) : ~(files[sorted[i + 1]] < threshold)}
    IN  IF hits = {} THEN None
        ELSE Some(CHOOSE i \in hits : \A k \in hits : i <= k)

\* The slice &sorted[from..to], 0-based and half-open.
Slice(sorted, from, to) == SubSeq(sorted, from + 1, to)

PlanIdle ==
    /\ planFiles = <<>>
    /\ planConfig = [small_file_threshold_bytes |-> None,
                     large_file_threshold_bytes |-> None]
    /\ planPc = "idle"
    /\ planSorted = <<>>
    /\ planStatus = "none"
    /\ small_files = <<>>
    /\ single_chunk_files = <<>>
    /\ large_files = <<>>

PlanInit ==
    /\ planFiles \in PlanInputs
    /\ planConfig \in PlanConfigs
    /\ planPc = "call"
    /\ planSorted = <<>>
    /\ planStatus = "none"
    /\ small_files = <<>>
    /\ single_chunk_files = <<>>
    /\ large_files = <<>>

\* `.unwrap()` on None: create panics and no slice is taken.
PlanPanics(sorted) ==
    /\ planSorted' = sorted
    /\ planStatus' = "panic"
    /\ UNCHANGED <<small_files, single_chunk_files, large_files>>

\* transfer.rs:138-170.  What follows the slices (line 172, todo!()) is the
\* bundling that is not implemented; the model ends at the slices.
Create ==
    /\ planPc = "call"
    /\ UNCHANGED NotPlan
    /\ planPc' = "done"
    /\ \E sorted \in SortUnstableByKey(planFiles) :
        LET first_non_small_file_index ==
                FirstIndexNotBelow(planFiles, sorted, 0,
                                   get_small_file_threshold(planConfig))
        IN  IF first_non_small_file_index = None
            THEN PlanPanics(sorted)
            ELSE LET i == first_non_small_file_index[1]
                     first_large_file_index ==
                         FirstIndexNotBelow(planFiles, sorted, i,
                                            get_large_file_threshold(planConfig))
                 IN  IF first_large_file_index = None
                     THEN PlanPanics(sorted)
                     ELSE LET j == first_large_file_index[1]
                          IN  /\ planSorted' = sorted
                              /\ planStatus' = "computed"
                              /\ small_files' = Slice(sorted, 0, i)
                              /\ single_chunk_files' = Slice(sorted, i, j)
                              /\ large_files' = Slice(sorted, j, Len(sorted))
    /\ UNCHANGED <<planFiles, planConfig>>

PlanNext == Create


(***************************************************************************)
(* The encrypted channel (crypto.rs): one TCP connection, both ends of     *)
(* which run EncryptedStream::new and then send and receive frames.        *)
(***************************************************************************)
Peers == {"client", "server"}

Other(p) == IF p = "client" THEN "server" ELSE "client"

\* A byte on the wire is the 1-tuple <<b>> with b in 0..255; a byte of an
\* authentication tag is a pair (see TagBytes).
Byte(b) == <<b>>

RECURSIVE Reverse(_)
Reverse(s) == IF s = <<>> THEN <<>> ELSE Reverse(Tail(s)) \o <<Head(s)>>

RECURSIVE LittleEndian(_, _)
LittleEndian(n, width) ==
    IF width = 0 THEN <<>>
    ELSE <<Byte(n % 256)>> \o LittleEndian(n \div 256, width - 1)

RECURSIVE FromLittleEndian(_)
FromLittleEndian(bytes) ==
    IF bytes = <<>> THEN 0
    ELSE Head(bytes)[1] + 256 * FromLittleEndian(Tail(bytes))

\* write_u32 with the bytes in the host's little-endian order.
BigEndianSwapped(n, width) == LittleEndian(n, width)

\* write_u32 / read_u32: network byte order.
BigEndian(n, width) == Reverse(LittleEndian(n, width))

FromBigEndian(bytes) == FromLittleEndian(Reverse(bytes))

Take(s, n) == SubSeq(s, 1, n)

Drop(s, n) == SubSeq(s, n + 1, Len(s))

\* ---- X25519, as Diffie-Hellman in the group of units modulo DhModulus ----
DhModulus == 11

DhBase == 2

\* The public key is 32 bytes (crypto.rs:54), as is the salt (crypto.rs:74).
PUBLIC_KEY_LEN == 32

SALT_LEN == 32

\* The values the random number generator may give.
PrivateKeys == {1, 2}

Salts == {1, 2}

RECURSIVE Pow(_, _)
Pow(b, e) == IF e = 0 THEN 1 ELSE (b * Pow(b, e - 1)) % DhModulus

compute_public_key(private_key) ==
    LittleEndian(Pow(DhBase, private_key), PUBLIC_KEY_LEN)

\* agree_ephemeral: the shared secret.
agree_ephemeral(my_private_key_, peer_public_key_) ==
    Pow(FromLittleEndian(peer_public_key_), my_private_key_)

\* ---- HKDF-SHA256: a key is determined by, and determines, its inputs ----
KEY_INFO == "pneumatic-key"

extract(salt, secret) == [salt |-> FromLittleEndian(salt), secret |-> secret]

expand_key(prk) == [info |-> KEY_INFO, prk |-> prk]

\* NonceCounter::new (crypto.rs:32-34) and bind_key (crypto.rs:97-101).
NonceCounterNew == 1

bind_key(key) == [key |-> key, nonce_sequence |-> NonceCounterNew]

derive_keys(my_private_key_, peer_public_key_, encrypt_salt, decrypt_salt) ==
    LET secret == agree_ephemeral(my_private_key_, peer_public_key_)
        encrypt_prk == extract(encrypt_salt, secret)
        decrypt_prk == extract(decrypt_salt, secret)
    IN  [encrypt_key |-> bind_key(expand_key(encrypt_prk)),
         decrypt_key |-> bind_key(expand_key(decrypt_prk))]

\* The keys of a peer whose handshake has not finished.
Unkeyed ==
    LET unbound == [key |-> [info |-> "", prk |-> [salt |-> 0, secret |-> 0]],
                    nonce_sequence |-> 0]
    IN  [encrypt_key |-> unbound, decrypt_key |-> unbound]

\* NonceCounter::advance (crypto.rs:38-46): the counter after the step and
\* the 96-bit nonce made of it.  (The counter is a u64; the model's runs are
\* far too short for it to overflow.)
\* An advance that hands out the nonce and leaves the counter where it was.
advance_without_increment(counter) == counter

advance_counter(counter) == counter + 1

advance_nonce(counter) ==
    LittleEndian(advance_counter(counter), 8) \o LittleEndian(0, 4)

\* ---- AES-256-GCM ----
TAG_LEN == 16

\* The key stream is a function of the key, the nonce and the position.
KeyStreamBase(key, nonce) ==
    (key.prk.salt * 31 + key.prk.secret * 17 + FromLittleEndian(nonce) * 7 + 1) % 256

KeyStream(base, i) == (base + i * 3) % 256

Encrypt(key, nonce, plaintext) ==
    LET base == KeyStreamBase(key, nonce)
    IN  [i \in DOMAIN plaintext |->
            Byte((plaintext[i][1] + KeyStream(base, i)) % 256)]

Decrypt(key, nonce, ciphertext) ==
    LET base == KeyStreamBase(key, nonce)
    IN  [i \in DOMAIN ciphertext |->
            Byte((ciphertext[i][1] + 256 - KeyStream(base, i)) % 256)]

\* The tag authenticates the ciphertext under the key and nonce: only the
\* same three give the same tag.
TagBytes(key, nonce, ciphertext) ==
    LET mac == <<key.prk.salt, key.prk.secret, FromLittleEndian(nonce), ciphertext>>
    IN  [i \in 1..TAG_LEN |-> <<i, mac>>]

seal_in_place_append_tag(key, nonce, buffer) ==
    LET ciphertext == Encrypt(key, nonce, buffer)
    IN  ciphertext \o TagBytes(key, nonce, ciphertext)

\* open_in_place: Some(plaintext), or None when the tag does not verify.
open_in_place(key, nonce, buffer) ==
    IF Len(buffer) < TAG_LEN THEN None
    ELSE LET ciphertext == Take(buffer, Len(buffer) - TAG_LEN)
             tag == Drop(buffer, Len(buffer) - TAG_LEN)
         IN  IF tag = TagBytes(key, nonce, ciphertext)
             THEN Some(Decrypt(key, nonce, ciphertext))
             ELSE None

\* ---- bincode of protocol::Message (protocol.rs:37-41) ----
PROTOCOL_VERSION == 1

Greeting(protocol_version) == <<"Greeting", protocol_version>>

Disconnect == <<"Disconnect">>

Messages == {Greeting(PROTOCOL_VERSION), Disconnect}

\* The variant index as a u32, then the fields, all little-endian.
serialize(object) ==
    IF object[1] = "Greeting"
    THEN LittleEndian(0, 4) \o LittleEndian(object[2], 4)
    ELSE LittleEndian(1, 4)

\* Some(object), or None when the bytes are no Message.
deserialize(bytes) ==
    IF Len(bytes) < 4 THEN None
    ELSE LET variant == FromLittleEndian(Take(bytes, 4))
         IN  IF variant = 0
             THEN IF Len(bytes) < 8 THEN None
                  ELSE Some(Greeting(FromLittleEndian(SubSeq(bytes, 5, 8))))
             ELSE IF variant = 1 THEN Some(Disconnect)
             ELSE None

ChannelRest ==
    /\ my_private_key = [p \in Peers |-> 0]
    /\ peer_public_key = [p \in Peers |-> <<>>]
    /\ my_salt = [p \in Peers |-> <<>>]
    /\ other_salt = [p \in Peers |-> <<>>]
    /\ keys = [p \in Peers |-> Unkeyed]
    /\ wire = [p \in Peers |-> <<>>]
    /\ spc = [p \in Peers |-> "idle"]
    /\ sbuf = [p \in Peers |-> <<>>]
    /\ rpc = [p \in Peers |-> "read_u32"]
    /\ rlen = [p \in Peers |-> 0]
    /\ sent = [p \in Peers |-> <<>>]
    /\ received = [p \in Peers |-> <<>>]
    /\ sealLog = <<>>
    /\ tampered = <<>>

\* No connection.
ChannelIdle ==
    /\ hpc = [p \in Peers |-> "none"]
    /\ ChannelRest

\* A connection is made and each end calls EncryptedStream::new
\* (client.rs:13-17, server.rs:111-113).
ChannelInit ==
    /\ hpc = [p \in Peers |-> "exchange_keys"]
    /\ ChannelRest

\* A handshake with a turn order in which each side waits for the peer's
\* public key before it writes its own.
ExchangeKeysWriteAfterRead(p) ==
    /\ hpc[p] = "exchange_keys"
    /\ Len(wire[p]) >= PUBLIC_KEY_LEN
    /\ UNCHANGED <<NotChannel, tampered>>
    /\ \E k \in PrivateKeys :
        /\ my_private_key' = [my_private_key EXCEPT ![p] = k]
        /\ wire' = [wire EXCEPT ![Other(p)] = @ \o compute_public_key(k)]
    /\ hpc' = [hpc EXCEPT ![p] = "read_key"]
    /\ UNCHANGED <<peer_public_key, my_salt, other_salt, keys, spc, sbuf, rpc,
                   rlen, sent, received, sealLog>>

\* crypto.rs:50-58: generate the key pair and write the public key.
ExchangeKeysWrite(p) ==
    /\ hpc[p] = "exchange_keys"
    /\ UNCHANGED <<NotChannel, tampered>>
    /\ \E k \in PrivateKeys :
        /\ my_private_key' = [my_private_key EXCEPT ![p] = k]
        /\ wire' = [wire EXCEPT ![Other(p)] = @ \o compute_public_key(k)]
    /\ hpc' = [hpc EXCEPT ![p] = "read_key"]
    /\ UNCHANGED <<peer_public_key, my_salt, other_salt, keys, spc, sbuf, rpc,
                   rlen, sent, received, sealLog>>

\* crypto.rs:61-70: read_exact the peer's public key.
ExchangeKeysRead(p) ==
    /\ hpc[p] = "read_key"
    /\ UNCHANGED <<NotChannel, tampered>>
    /\ Len(wire[p]) >= PUBLIC_KEY_LEN
    /\ peer_public_key' = [peer_public_key EXCEPT ![p] = Take(wire[p], PUBLIC_KEY_LEN)]
    /\ wire' = [wire EXCEPT ![p] = Drop(@, PUBLIC_KEY_LEN)]
    /\ hpc' = [hpc EXCEPT ![p] = "exchange_salt"]
    /\ UNCHANGED <<my_private_key, my_salt, other_salt, keys, spc, sbuf, rpc,
                   rlen, sent, received, sealLog>>

\* crypto.rs:74-76: fill the salt from the rng and write it.
ExchangeSaltWrite(p) ==
    /\ hpc[p] = "exchange_salt"
    /\ UNCHANGED <<NotChannel, tampered>>
    /\ \E s \in Salts :
        /\ my_salt' = [my_salt EXCEPT ![p] = LittleEndian(s, SALT_LEN)]
        /\ wire' = [wire EXCEPT ![Other(p)] = @ \o LittleEndian(s, SALT_LEN)]
    /\ hpc' = [hpc EXCEPT ![p] = "read_salt"]
    /\ UNCHANGED <<my_private_key, peer_public_key, other_salt, keys, spc, sbuf,
                   rpc, rlen, sent, received, sealLog>>

\* crypto.rs:78-87 and 174-176: read_exact the peer's salt, derive the keys
\* and return the EncryptedStream.
ExchangeSaltRead(p) ==
    /\ hpc[p] = "read_salt"
    /\ UNCHANGED <<NotChannel, tampered>>
    /\ Len(wire[p]) >= SALT_LEN
    /\ LET salt == Take(wire[p], SALT_LEN)
       IN  /\ other_salt' = [other_salt EXCEPT ![p] = salt]
           /\ keys' = [keys EXCEPT ![p] =
                  derive_keys(my_private_key[p], peer_public_key[p], my_salt[p], salt)]
    /\ wire' = [wire EXCEPT ![p] = Drop(@, SALT_LEN)]
    /\ hpc' = [hpc EXCEPT ![p] = "ready"]
    /\ UNCHANGED <<my_private_key, peer_public_key, my_salt, spc, sbuf, rpc,
                   rlen, sent, received, sealLog>>

\* crypto.rs:159-161 and 137-143: serialize, seal in place with the next
\* encrypt nonce, write the length.
SendBincode(p) ==
    /\ hpc[p] = "ready"
    /\ UNCHANGED <<NotChannel, tampered>>
    /\ spc[p] = "idle"
    /\ Len(sent["client"]) + Len(sent["server"]) < MaxMessages
    /\ \E object \in Messages :
        \E nonce \in {advance_nonce(keys[p].encrypt_key.nonce_sequence)} :
        \E buffer \in {seal_in_place_append_tag(keys[p].encrypt_key.key, nonce,
                                                serialize(object))} :
            /\ keys' = [keys EXCEPT ![p].encrypt_key.nonce_sequence = advance_counter(@)]
            /\ sealLog' = Append(sealLog, [key |-> keys[p].encrypt_key.key,
                                           nonce |-> nonce])
            /\ wire' = [wire EXCEPT ![Other(p)] = @ \o BigEndian(Len(buffer), 4)]
            /\ sbuf' = [sbuf EXCEPT ![p] = buffer]
            /\ sent' = [sent EXCEPT ![p] = Append(@, object)]
    /\ spc' = [spc EXCEPT ![p] = "write_all"]
    /\ UNCHANGED <<hpc, my_private_key, peer_public_key, my_salt, other_salt,
                   rpc, rlen, received>>

\* crypto.rs:144: write the sealed buffer.
SendWriteAll(p) ==
    /\ spc[p] = "write_all"
    /\ UNCHANGED <<NotChannel, tampered>>
    /\ wire' = [wire EXCEPT ![Other(p)] = @ \o sbuf[p]]
    /\ sbuf' = [sbuf EXCEPT ![p] = <<>>]
    /\ spc' = [spc EXCEPT ![p] = "idle"]
    /\ UNCHANGED <<hpc, my_private_key, peer_public_key, my_salt, other_salt, keys,
                   rpc, rlen, sent, received, sealLog>>

\* crypto.rs:148-149: read the length.
ReceiveLength(p) ==
    /\ hpc[p] = "ready"
    /\ UNCHANGED <<NotChannel, tampered>>
    /\ rpc[p] = "read_u32"
    /\ Len(wire[p]) >= 4
    /\ rlen' = [rlen EXCEPT ![p] = FromBigEndian(Take(wire[p], 4))]
    /\ wire' = [wire EXCEPT ![p] = Drop(@, 4)]
    /\ rpc' = [rpc EXCEPT ![p] = "read_exact"]
    /\ UNCHANGED <<hpc, my_private_key, peer_public_key, my_salt, other_salt, keys,
                   spc, sbuf, sent, received, sealLog>>

\* crypto.rs:151-156 and 165-166: read the frame, open it in place with the
\* next decrypt nonce, deserialize.  Either unwrap panics on a failure.
ReceiveBincode(p) ==
    /\ rpc[p] = "read_exact"
    /\ UNCHANGED <<NotChannel, tampered>>
    /\ Len(wire[p]) >= rlen[p]
    /\ \E opened \in {open_in_place(keys[p].decrypt_key.key,
                                     advance_nonce(keys[p].decrypt_key.nonce_sequence),
                                     Take(wire[p], rlen[p]))} :
       \E object \in {IF opened = None THEN None ELSE deserialize(opened[1])} :
           /\ keys' = [keys EXCEPT ![p].decrypt_key.nonce_sequence = advance_counter(@)]
           /\ IF object = None
              THEN /\ rpc' = [rpc EXCEPT ![p] = "panicked"]
                   /\ UNCHANGED received
              ELSE /\ rpc' = [rpc EXCEPT ![p] = "read_u32"]
                   /\ received' = [received EXCEPT ![p] = Append(@, object[1])]
    /\ wire' = [wire EXCEPT ![p] = Drop(@, rlen[p])]
    /\ rlen' = [rlen EXCEPT ![p] = 0]
    /\ UNCHANGED <<hpc, my_private_key, peer_public_key, my_salt, other_salt,
                   spc, sbuf, sent, sealLog>>

ChannelNext ==
    \E p \in Peers :
        \/ ExchangeKeysWrite(p)
        \/ ExchangeKeysRead(p)
        \/ ExchangeSaltWrite(p)
        \/ ExchangeSaltRead(p)
        \/ SendBincode(p)
        \/ SendWriteAll(p)
        \/ ReceiveLength(p)
        \/ ReceiveBincode(p)

(***************************************************************************)
(* The network alters one byte of a frame in transit.                      *)
(***************************************************************************)
\* The bits of a byte the network may flip: bit 2 makes the length of a
\* 20-byte frame smaller and that of a 24-byte frame larger.
FlipBits == {2}

RECURSIVE Pow2(_)
Pow2(k) == IF k = 0 THEN 1 ELSE 2 * Pow2(k - 1)

Flip(b, k) == IF (b \div Pow2(k)) % 2 = 1 THEN b - Pow2(k) ELSE b + Pow2(k)

\* A wire byte with bit k flipped; an altered byte of the tag no longer is
\* the tag's byte.
Altered(byte, k) == IF Len(byte) = 1 THEN Byte(Flip(byte[1], k)) ELSE <<byte[1], <<>>>>

\* The frame at the head of q's stream is the next one q receives; with its
\* length prefix it takes this many bytes.
HeadFrame(q) == Len(received[q]) + 1

HeadFrameLen(q) == 4 + Len(serialize(sent[Other(q)][HeadFrame(q)])) + TAG_LEN

\* One byte of the head frame is altered after the sender wrote the frame
\* and before the receiver starts to read it.
Tamper(q) ==
    /\ tampered = <<>>
    /\ hpc[q] = "ready"
    /\ rpc[q] = "read_u32"
    /\ HeadFrame(q) <= Len(sent[Other(q)])
    /\ Len(wire[q]) >= HeadFrameLen(q)
    /\ \E i \in 1..HeadFrameLen(q) : \E k \in FlipBits :
           wire' = [wire EXCEPT ![q][i] = Altered(@, k)]
    /\ tampered' = <<q, HeadFrame(q)>>
    /\ UNCHANGED NotChannel
    /\ UNCHANGED <<hpc, my_private_key, peer_public_key, my_salt, other_salt, keys,
                   spc, sbuf, rpc, rlen, sent, received, sealLog>>

\* EncryptedStream::new has returned at both ends (crypto.rs:169-177) and
\* nothing has been sent yet.
EstablishedInit ==
    /\ hpc = [p \in Peers |-> "ready"]
    /\ my_private_key \in [Peers -> PrivateKeys]
    /\ peer_public_key = [p \in Peers |-> compute_public_key(my_private_key[Other(p)])]
    /\ \E salt \in [Peers -> Salts] :
           /\ my_salt = [p \in Peers |-> LittleEndian(salt[p], SALT_LEN)]
           /\ other_salt = [p \in Peers |-> LittleEndian(salt[Other(p)], SALT_LEN)]
    /\ keys = [p \in Peers |->
                  derive_keys(my_private_key[p], peer_public_key[p],
                              my_salt[p], other_salt[p])]
    /\ wire = [p \in Peers |-> <<>>]
    /\ spc = [p \in Peers |-> "idle"]
    /\ sbuf = [p \in Peers |-> <<>>]
    /\ rpc = [p \in Peers |-> "read_u32"]
    /\ rlen = [p \in Peers |-> 0]
    /\ sent = [p \in Peers |-> <<>>]
    /\ received = [p \in Peers |-> <<>>]
    /\ sealLog = <<>>
    /\ tampered = <<>>

TamperNext ==
    \E p \in Peers :
        \/ SendBincode(p)
        \/ SendWriteAll(p)
        \/ ReceiveLength(p)
        \/ ReceiveBincode(p)
        \/ Tamper(p)


(***************************************************************************)
(* The server and its clients (server.rs, client.rs)                       *)
(***************************************************************************)
Clients == 1..MaxClients

\* What the two ends of connection c write during the handshake.  The model
\* of the server keeps the key material symbolic: a public key and a salt
\* are named by the connection and the end that made them.
PublicKeyOf(c, end) == [kind |-> "public_key", address |-> c, of |-> end]

SaltOf(c, end) == [kind |-> "salt", address |-> c, of |-> end]

\* crypto.rs:103-129 for an end of connection c that read `read`: the peer's
\* public key, then the peer's salt.  The shared secret is the same for
\* both orders of the two public keys.
SessionKeys(c, end, read) ==
    LET secret == {PublicKeyOf(c, end), read[1]}
        encrypt_prk == [salt |-> SaltOf(c, end), secret |-> secret]
        decrypt_prk == [salt |-> read[2], secret |-> secret]
    IN  [encrypt_key |-> bind_key(expand_key(encrypt_prk)),
         decrypt_key |-> bind_key(expand_key(decrypt_prk))]

\* send_bincode (crypto.rs:137-145, 159-162) as one frame on the stream.
Frame(key, object) ==
    [kind |-> "frame", key |-> key.key,
     nonce |-> advance_counter(key.nonce_sequence), object |-> object,
     intact |-> TRUE]

\* receive_bincode (crypto.rs:147-157, 164-167): Some(object), or None when
\* open_in_place fails.
OpenFrame(key, frame) ==
    IF /\ frame.kind = "frame"
       /\ frame.intact
       /\ frame.key = key.key
       /\ frame.nonce = advance_counter(key.nonce_sequence)
    THEN Some(frame.object)
    ELSE None

Advanced(key) == [key EXCEPT !.nonce_sequence = advance_counter(@)]

\* The versions a client may put in its Greeting.
GreetingVersions == {PROTOCOL_VERSION, PROTOCOL_VERSION + 1}

\* protocol::GreetingResponse.
ProtocolOk == <<"ProtocolOk">>

UnsupportedProtocol == <<"UnsupportedProtocol">>

\* server.rs:101: tokio::sync::mpsc::channel(4).
CONTROL_CAPACITY == 4

ControlDisconnect(address) == <<"Disconnect", address>>

ServerRest ==
    /\ listener = <<>>
    /\ accepted = 0
    /\ sread = <<>>
    /\ connection = [c \in Clients |-> None]
    /\ sessions = {}
    /\ control = <<>>
    /\ disconnected = {}
    /\ handler = [c \in Clients |-> "none"]
    /\ handled = [c \in Clients |-> <<>>]
    /\ cread = [c \in Clients |-> <<>>]
    /\ client_connection = [c \in Clients |-> None]
    /\ dpc = [c \in Clients |-> "none"]
    /\ client_sent = [c \in Clients |-> <<>>]
    /\ to_server = [c \in Clients |-> <<>>]
    /\ to_client = [c \in Clients |-> <<>>]
    /\ corrupted = 0

\* No server.
ServerIdle ==
    /\ apc = "none"
    /\ cpc = [c \in Clients |-> "none"]
    /\ ServerRest

\* Server::start_new has spawned the accept loop (server.rs:95-139) and no
\* client has connected yet.
ServerInit ==
    /\ apc = "select"
    /\ cpc = [c \in Clients |-> "start"]
    /\ ServerRest

\* ---- Client::connect (client.rs:10-22) ----
\* client.rs:13: TcpStream::connect; the connection waits to be accepted.
ClientConnect(c) ==
    /\ cpc[c] = "start"
    /\ cpc' = [cpc EXCEPT ![c] = "write_key"]
    /\ listener' = Append(listener, c)
    /\ UNCHANGED NotServer
    /\ UNCHANGED <<apc, accepted, sread, connection, sessions, control,
                   disconnected, handler, handled, cread, client_connection,
                   dpc, client_sent, to_server, to_client, corrupted>>

\* crypto.rs:50-58, reached through Connection::new_encrypted (client.rs:17).
ClientWriteKey(c) ==
    /\ cpc[c] = "write_key"
    /\ cpc' = [cpc EXCEPT ![c] = "read_key"]
    /\ to_server' = [to_server EXCEPT ![c] = Append(@, PublicKeyOf(c, "client"))]
    /\ UNCHANGED NotServer
    /\ UNCHANGED <<listener, apc, accepted, sread, connection, sessions, control,
                   disconnected, handler, handled, cread, client_connection,
                   dpc, client_sent, to_client, corrupted>>

\* crypto.rs:61-70.
ClientReadKey(c) ==
    /\ cpc[c] = "read_key"
    /\ to_client[c] # <<>>
    /\ cpc' = [cpc EXCEPT ![c] = "write_salt"]
    /\ cread' = [cread EXCEPT ![c] = Append(@, Head(to_client[c]))]
    /\ to_client' = [to_client EXCEPT ![c] = Tail(@)]
    /\ UNCHANGED NotServer
    /\ UNCHANGED <<listener, apc, accepted, sread, connection, sessions, control,
                   disconnected, handler, handled, client_connection,
                   dpc, client_sent, to_server, corrupted>>

\* crypto.rs:74-76.
ClientWriteSalt(c) ==
    /\ cpc[c] = "write_salt"
    /\ cpc' = [cpc EXCEPT ![c] = "read_salt"]
    /\ to_server' = [to_server EXCEPT ![c] = Append(@, SaltOf(c, "client"))]
    /\ UNCHANGED NotServer
    /\ UNCHANGED <<listener, apc, accepted, sread, connection, sessions, control,
                   disconnected, handler, handled, cread, client_connection,
                   dpc, client_sent, to_client, corrupted>>

\* crypto.rs:78-87, 174-176 and client.rs:19-21: the salt is read, the keys
\* are derived and Client::connect returns.
ClientReadSalt(c) ==
    /\ cpc[c] = "read_salt"
    /\ to_client[c] # <<>>
    /\ cpc' = [cpc EXCEPT ![c] = "connected"]
    /\ cread' = [cread EXCEPT ![c] = Append(@, Head(to_client[c]))]
    /\ client_connection' = [client_connection EXCEPT ![c] =
           Some(SessionKeys(c, "client", Append(cread[c], Head(to_client[c]))))]
    /\ to_client' = [to_client EXCEPT ![c] = Tail(@)]
    /\ UNCHANGED NotServer
    /\ UNCHANGED <<listener, apc, accepted, sread, connection, sessions, control,
                   disconnected, handler, handled, dpc, client_sent, to_server,
                   corrupted>>

\* An unwrap of the handshake panics on an I/O failure (crypto.rs:58, 62,
\* 76, 79) or on a failed key agreement (crypto.rs:120).
ClientHandshakeFails(c) ==
    /\ cpc[c] \in {"write_key", "read_key", "write_salt", "read_salt"}
    /\ cpc' = [cpc EXCEPT ![c] = "panicked"]
    /\ UNCHANGED NotServer
    /\ UNCHANGED <<listener, apc, accepted, sread, connection, sessions, control,
                   disconnected, handler, handled, cread, client_connection,
                   dpc, client_sent, to_server, to_client, corrupted>>

\* ---- Client::send_message and Drop (client.rs:24-48) ----
Greetings(c) == {i \in DOMAIN client_sent[c] : client_sent[c][i] # Disconnect}

\* client.rs:28-33: the owner sends a Greeting.
ClientSendMessage(c) ==
    /\ cpc[c] = "connected"
    /\ Cardinality(Greetings(c)) < MaxGreetings
    /\ \E protocol_version \in GreetingVersions :
        LET message == Greeting(protocol_version)
            keys_ == client_connection[c][1]
        IN  /\ to_server' = [to_server EXCEPT ![c] =
                   Append(@, Frame(keys_.encrypt_key, message))]
            /\ client_connection' = [client_connection EXCEPT ![c] =
                   Some([keys_ EXCEPT !.encrypt_key = Advanced(@)])]
            /\ client_sent' = [client_sent EXCEPT ![c] = Append(@, message)]
    /\ UNCHANGED NotServer
    /\ UNCHANGED <<listener, apc, accepted, sread, connection, sessions, control,
                   disconnected, handler, handled, cpc, cread, dpc, to_client,
                   corrupted>>

\* client.rs:37-46: drop takes the connection, spawns a task that is to send
\* Disconnect, and returns.
ClientDrop(c) ==
    /\ cpc[c] = "connected"
    /\ cpc' = [cpc EXCEPT ![c] = "dropped"]
    /\ dpc' = [dpc EXCEPT ![c] = "spawned"]
    /\ UNCHANGED NotServer
    /\ UNCHANGED <<listener, apc, accepted, sread, connection, sessions, control,
                   disconnected, handler, handled, cread, client_connection,
                   client_sent, to_server, to_client, corrupted>>

\* client.rs:42-43: the spawned task sends Disconnect and ends; the
\* connection it owns is closed with it.
SpawnedDisconnect(c) ==
    /\ dpc[c] = "spawned"
    /\ dpc' = [dpc EXCEPT ![c] = "done"]
    /\ LET keys_ == client_connection[c][1]
       IN  /\ to_server' = [to_server EXCEPT ![c] =
                  Append(@, Frame(keys_.encrypt_key, Disconnect))]
           /\ client_connection' = [client_connection EXCEPT ![c] =
                  Some([keys_ EXCEPT !.encrypt_key = Advanced(@)])]
    /\ client_sent' = [client_sent EXCEPT ![c] = Append(@, Disconnect)]
    /\ UNCHANGED NotServer
    /\ UNCHANGED <<listener, apc, accepted, sread, connection, sessions, control,
                   disconnected, handler, handled, cpc, cread, to_client,
                   corrupted>>

\* The owner's runtime shuts down after the drop (tests/server_client.rs:
\* 31-33): a spawned task that has not run yet is cancelled, and its
\* connection is closed unused.
ClientExit(c) ==
    /\ cpc[c] = "dropped"
    /\ cpc' = [cpc EXCEPT ![c] = "exited"]
    /\ dpc' = [dpc EXCEPT ![c] = IF @ = "spawned" THEN "cancelled" ELSE @]
    /\ UNCHANGED NotServer
    /\ UNCHANGED <<listener, apc, accepted, sread, connection, sessions, control,
                   disconnected, handler, handled, cread, client_connection,
                   client_sent, to_server, to_client, corrupted>>

\* The client's end of the TCP connection is closed.
StreamClosed(c) == cpc[c] = "panicked" \/ dpc[c] \in {"done", "cancelled"}

\* ---- the accept loop (server.rs:106-136) ----
\* server.rs:111-112: socket.accept() yields a connection.
Accept ==
    /\ apc = "select"
    /\ listener # <<>>
    /\ accepted' = Head(listener)
    /\ listener' = Tail(listener)
    /\ apc' = "write_key"
    /\ UNCHANGED NotServer
    /\ UNCHANGED <<sread, connection, sessions, control, disconnected, handler,
                   handled, cpc, cread, client_connection, dpc, client_sent,
                   to_server, to_client, corrupted>>

\* server.rs:113 and crypto.rs:50-58: the handshake runs inside the accept
\* loop.
ServerWriteKey ==
    /\ apc = "write_key"
    /\ apc' = "read_key"
    /\ to_client' = [to_client EXCEPT ![accepted] = Append(@, PublicKeyOf(accepted, "server"))]
    /\ UNCHANGED NotServer
    /\ UNCHANGED <<listener, accepted, sread, connection, sessions, control,
                   disconnected, handler, handled, cpc, cread, client_connection,
                   dpc, client_sent, to_server, corrupted>>

\* crypto.rs:61-70.
ServerReadKey ==
    /\ apc = "read_key"
    /\ to_server[accepted] # <<>>
    /\ apc' = "write_salt"
    /\ sread' = Append(sread, Head(to_server[accepted]))
    /\ to_server' = [to_server EXCEPT ![accepted] = Tail(@)]
    /\ UNCHANGED NotServer
    /\ UNCHANGED <<listener, accepted, connection, sessions, control,
                   disconnected, handler, handled, cpc, cread, client_connection,
                   dpc, client_sent, to_client, corrupted>>

\* crypto.rs:74-76.
ServerWriteSalt ==
    /\ apc = "write_salt"
    /\ apc' = "read_salt"
    /\ to_client' = [to_client EXCEPT ![accepted] = Append(@, SaltOf(accepted, "server"))]
    /\ UNCHANGED NotServer
    /\ UNCHANGED <<listener, accepted, sread, connection, sessions, control,
                   disconnected, handler, handled, cpc, cread, client_connection,
                   dpc, client_sent, to_server, corrupted>>

\* crypto.rs:78-87, 174-176 and server.rs:113-114: the salt is read, the keys
\* are derived and the Connection is returned to the accept loop.
ServerReadSalt ==
    /\ apc = "read_salt"
    /\ to_server[accepted] # <<>>
    /\ apc' = "insert"
    /\ sread' = <<>>
    /\ connection' = [connection EXCEPT ![accepted] =
           Some(SessionKeys(accepted, "server", Append(sread, Head(to_server[accepted]))))]
    /\ to_server' = [to_server EXCEPT ![accepted] = Tail(@)]
    /\ UNCHANGED NotServer
    /\ UNCHANGED <<listener, accepted, sessions, control, disconnected, handler,
                   handled, cpc, cread, client_connection, dpc, client_sent,
                   to_client, corrupted>>

\* A handshake whose failure is passed over: the accept loop goes on with a
\* connection that has no keys.
ServerHandshakeFailsIgnored ==
    /\ apc \in {"write_key", "read_key", "write_salt", "read_salt"}
    /\ apc' = "insert"
    /\ connection' = [connection EXCEPT ![accepted] = Some(Unkeyed)]
    /\ UNCHANGED NotServer
    /\ UNCHANGED <<listener, accepted, sread, sessions, control,
                   disconnected, handler, handled, cpc, cread, client_connection,
                   dpc, client_sent, to_server, to_client, corrupted>>

\* An unwrap of the handshake panics (crypto.rs:58, 62, 76, 79, 120): the
\* accept loop task ends with it.
ServerHandshakeFails ==
    /\ apc \in {"write_key", "read_key", "write_salt", "read_salt"}
    /\ apc' = "panicked"
    /\ UNCHANGED NotServer
    /\ UNCHANGED <<listener, accepted, sread, connection, sessions, control,
                   disconnected, handler, handled, cpc, cread, client_connection,
                   dpc, client_sent, to_server, to_client, corrupted>>

\* The accept loop spawning the handler before the session is in the
\* registry.
InsertAfterSpawn ==
    /\ apc = "insert"
    /\ handler' = [handler EXCEPT ![accepted] = "receive"]
    /\ apc' = "insert_late"
    /\ UNCHANGED NotServer
    /\ UNCHANGED <<listener, accepted, sread, connection, sessions, control,
                   disconnected, handled, cpc, cread, client_connection, dpc,
                   client_sent, to_server, to_client, corrupted>>

\* server.rs:116-120: the Session is made and inserted under the write lock.
Insert ==
    /\ apc = "insert"
    /\ sessions' = sessions \cup {accepted}
    /\ apc' = "spawn"
    /\ UNCHANGED NotServer
    /\ UNCHANGED <<listener, accepted, sread, connection, control, disconnected,
                   handler, handled, cpc, cread, client_connection, dpc,
                   client_sent, to_server, to_client, corrupted>>

\* server.rs:122-124: the handler task is spawned; the loop selects again.
SpawnHandler ==
    /\ apc = "spawn"
    /\ handler' = [handler EXCEPT ![accepted] = "receive"]
    /\ accepted' = 0
    /\ apc' = "select"
    /\ UNCHANGED NotServer
    /\ UNCHANGED <<listener, sread, connection, sessions, control, disconnected,
                   handled, cpc, cread, client_connection, dpc, client_sent,
                   to_server, to_client, corrupted>>

\* server.rs:126-132: a ControlMessage::Disconnect(address) is received and
\* matched by an empty arm.
RecvControl ==
    /\ apc = "select"
    /\ control # <<>>
    /\ control' = Tail(control)
    /\ disconnected' = disconnected \cup {Head(control)[2]}
    /\ UNCHANGED NotServer
    /\ UNCHANGED <<listener, apc, accepted, sread, connection, sessions, handler,
                   handled, cpc, cread, client_connection, dpc, client_sent,
                   to_server, to_client, corrupted>>

\* ---- Server::handle_client (server.rs:62-93) ----
\* A panic aborting the process, and with it every task.
PanicsAll(c) == [d \in Clients |-> "panicked"]

\* A panic in the task of c's handler ends that task.
Panics(c) == [handler EXCEPT ![c] = "panicked"]

\* server.rs:74-76: connection.receive returns the next message, or an
\* unwrap of receive_buffer or receive_bincode panics (crypto.rs:156, 166).
HandlerReceive(c) ==
    /\ handler[c] = "receive"
    /\ to_server[c] # <<>>
    /\ \E keys_ \in {connection[c][1]} :
       \E opened \in {OpenFrame(keys_.decrypt_key, Head(to_server[c]))} :
           /\ connection' = [connection EXCEPT ![c] =
                  Some([keys_ EXCEPT !.decrypt_key = Advanced(@)])]
           /\ IF opened = None
              THEN /\ handler' = Panics(c)
                   /\ UNCHANGED handled
              ELSE /\ handler' = [handler EXCEPT ![c] =
                          IF opened[1] = Disconnect THEN "send_control" ELSE "respond"]
                   /\ handled' = [handled EXCEPT ![c] = Append(@, opened[1])]
    /\ to_server' = [to_server EXCEPT ![c] = Tail(@)]
    /\ UNCHANGED NotServer
    /\ UNCHANGED <<listener, apc, accepted, sread, sessions, control,
                   disconnected, cpc, cread, client_connection, dpc,
                   client_sent, to_client, corrupted>>

\* crypto.rs:148: read_u32 on a stream the client has closed fails and the
\* unwrap panics.
HandlerReceiveEof(c) ==
    /\ handler[c] = "receive"
    /\ to_server[c] = <<>>
    /\ StreamClosed(c)
    /\ handler' = Panics(c)
    /\ UNCHANGED NotServer
    /\ UNCHANGED <<listener, apc, accepted, sread, connection, sessions, control,
                   disconnected, handled, cpc, cread, client_connection, dpc,
                   client_sent, to_server, to_client, corrupted>>

\* server.rs:77-81: the Greeting is answered with GreetingResponse::ProtocolOk.
HandlerRespond(c) ==
    /\ handler[c] = "respond"
    /\ LET keys_ == connection[c][1]
       IN  /\ to_client' = [to_client EXCEPT ![c] =
                  Append(@, Frame(keys_.encrypt_key, ProtocolOk))]
           /\ connection' = [connection EXCEPT ![c] =
                  Some([keys_ EXCEPT !.encrypt_key = Advanced(@)])]
    /\ handler' = [handler EXCEPT ![c] = "receive"]
    /\ UNCHANGED NotServer
    /\ UNCHANGED <<listener, apc, accepted, sread, sessions, control,
                   disconnected, handled, cpc, cread, client_connection, dpc,
                   client_sent, to_server, corrupted>>

\* The accept loop task has ended, and the Receiver it owned (server.rs:101,
\* moved into the task at server.rs:106) is dropped with it.
ReceiverDropped == apc = "panicked"

\* server.rs:82-90: ControlMessage::Disconnect(address) is sent to the accept
\* loop and the handler returns.  The send waits while the channel is full;
\* once the Receiver is dropped it returns an error and the unwrap of
\* server.rs:88 panics.
HandlerDisconnect(c) ==
    /\ handler[c] = "send_control"
    /\ IF ReceiverDropped
       THEN /\ handler' = Panics(c)
            /\ UNCHANGED control
       ELSE /\ Len(control) < CONTROL_CAPACITY
            /\ control' = Append(control, ControlDisconnect(c))
            /\ handler' = [handler EXCEPT ![c] = "returned"]
    /\ UNCHANGED NotServer
    /\ UNCHANGED <<listener, apc, accepted, sread, connection, sessions,
                   disconnected, handled, cpc, cread, client_connection, dpc,
                   client_sent, to_server, to_client, corrupted>>

\* ---- the network ----
\* One frame on its way to the server is corrupted.
Corrupt(c) ==
    /\ corrupted = 0
    /\ \E i \in DOMAIN to_server[c] :
        /\ to_server[c][i].kind = "frame"
        /\ to_server' = [to_server EXCEPT ![c][i].intact = FALSE]
    /\ corrupted' = c
    /\ UNCHANGED NotServer
    /\ UNCHANGED <<listener, apc, accepted, sread, connection, sessions, control,
                   disconnected, handler, handled, cpc, cread, client_connection,
                   dpc, client_sent, to_client>>

ServerNext ==
    \/ Accept
    \/ ServerWriteKey
    \/ ServerReadKey
    \/ ServerWriteSalt
    \/ ServerReadSalt
    \/ ServerHandshakeFails
    \/ Insert
    \/ SpawnHandler
    \/ RecvControl
    \/ \E c \in Clients :
        \/ ClientConnect(c)
        \/ ClientWriteKey(c)
        \/ ClientReadKey(c)
        \/ ClientWriteSalt(c)
        \/ ClientReadSalt(c)
        \/ ClientHandshakeFails(c)
        \/ ClientSendMessage(c)
        \/ ClientDrop(c)
        \/ SpawnedDisconnect(c)
        \/ ClientExit(c)
        \/ HandlerReceive(c)
        \/ HandlerReceiveEof(c)
        \/ HandlerRespond(c)
        \/ HandlerDisconnect(c)
        \/ Corrupt(c)

(***************************************************************************)
(* Properties of the transfer-plan builder                                 *)
(***************************************************************************)
PlanThresholdSmall == get_small_file_threshold(planConfig)

PlanThresholdLarge == get_large_file_threshold(planConfig)

Buckets == small_files \o single_chunk_files \o large_files

AscendingBySize(bucket) ==
    \A a \in DOMAIN bucket : \A b \in DOMAIN bucket :
        a < b => planFiles[bucket[a]] <= planFiles[bucket[b]]

IsPartition ==
    /\ Range(small_files) \cap Range(single_chunk_files) = {}
    /\ Range(small_files) \cap Range(large_files) = {}
    /\ Range(single_chunk_files) \cap Range(large_files) = {}
    /\ AscendingBySize(small_files)
    /\ AscendingBySize(single_chunk_files)
    /\ AscendingBySize(large_files)
    /\ \A k \in DOMAIN planFiles : CountIn(k, Buckets) = 1

BucketsBySize ==
    /\ Range(small_files) = {k \in DOMAIN planFiles : planFiles[k] < PlanThresholdSmall}
    /\ Range(single_chunk_files) =
          {k \in DOMAIN planFiles :
              PlanThresholdSmall <= planFiles[k] /\ planFiles[k] < PlanThresholdLarge}
    /\ Range(large_files) = {k \in DOMAIN planFiles : PlanThresholdLarge <= planFiles[k]}

\* What the code does establish: whenever both indices are found, the three
\* slices partition the input, each ascending by size, and for thresholds
\* with small <= large they are the files below, between and from the
\* thresholds.
ComputedPlanIsPartition ==
    (planPc = "done" /\ planStatus = "computed") =>
        /\ IsPartition
        /\ PlanThresholdSmall <= PlanThresholdLarge => BucketsBySize

\* C4: create partitions its input.  For every input file set and
\* thresholds the call yields three buckets that are pairwise disjoint, each
\* ascending by size, and together hold every input file exactly once.
PlanPartitionsInput ==
    planPc = "done" => (planStatus = "computed" /\ IsPartition)

\* C5: bucket boundaries.  For thresholds with small <= large the call
\* yields small = the files below the small threshold, single_chunk = the
\* files from the small and below the large threshold, large = the files
\* from the large threshold; the example input with the default thresholds
\* gives 2, 2 and 1 files.
PlanBucketBoundaries ==
    /\ (planPc = "done" /\ PlanThresholdSmall <= PlanThresholdLarge) =>
            (planStatus = "computed" /\ BucketsBySize)
    /\ (planPc = "done" /\ planFiles = ExampleFiles
            /\ PlanThresholdSmall = 1000000 /\ PlanThresholdLarge = 512000000) =>
            /\ Len(small_files) = 2
            /\ Len(single_chunk_files) = 2
            /\ Len(large_files) = 1

\* C6: empty-input plan.  create called with zero files yields a plan whose
\* three buckets are empty, and does not fail.
EmptyInputPlan ==
    (planPc = "done" /\ planFiles = <<>>) =>
        /\ planStatus = "computed"
        /\ small_files = <<>>
        /\ single_chunk_files = <<>>
        /\ large_files = <<>>

\* C7: threshold-extreme plans.  No choice of thresholds makes create fail;
\* a non-empty input with every file below the small threshold gives all
\* files in small and the other buckets empty, and an input with no file
\* reaching the large threshold gives an empty large bucket.
ThresholdExtremePlan ==
    planPc = "done" =>
        /\ planStatus = "computed"
        /\ (planFiles # <<>> /\ \A k \in DOMAIN planFiles : planFiles[k] < PlanThresholdSmall) =>
              /\ Range(small_files) = DOMAIN planFiles
              /\ single_chunk_files = <<>>
              /\ large_files = <<>>
        /\ (\A k \in DOMAIN planFiles : planFiles[k] < PlanThresholdLarge) =>
              large_files = <<>>

(***************************************************************************)
(* Properties of the discovery engine                                      *)
(***************************************************************************)
AllExited == \A w \in Workers : wpc[w] = "exited"

AllEnded == \A w \in Workers : WorkerEnded(w)

SomeFailed == \E w \in Workers : wpc[w] = "failed"

EachFileOnce == \A f \in Files : CountIn(f, Emitted) = 1

\* C1: traversal completeness.  No file is ever emitted twice and nothing
\* but a file of the tree is emitted; once the traversal has finished (the
\* outstanding-directory counter is 0, or discover_files_recursively has
\* returned after every worker left its loop at the counter check) the
\* emitted batches hold every file of the tree exactly once.
TraversalComplete ==
    /\ \A i \in DOMAIN Emitted : Emitted[i] \in Files
    /\ \A f \in Files : CountIn(f, Emitted) <= 1
    /\ folders_to_process = 0 => EachFileOnce
    /\ (discoverResult = "Ok" /\ AllExited) => EachFileOnce

\* C1 witness: a traversal of a tree of three directories and a file
\* has returned and the consumer holds its file.
TraversalCompleteWitness ==
    /\ discoverResult = "Ok"
    /\ AllExited
    /\ Cardinality(Dirs) >= 3
    /\ Cardinality(Files) >= 1
    /\ reporterDone
    /\ Len(all_files) = Cardinality(Files)

DiscoveryDone ==
    /\ folders_to_process = 0
    /\ AllExited
    /\ discoverResult = "Ok"
    /\ ChannelClosed

\* C2: discovery liveness.  With a consumer that keeps receiving, under
\* fair scheduling every run in which no worker ever hits an I/O error
\* reaches the state where the counter is 0, every worker loop has exited,
\* discover_files_recursively has returned and the output channel is closed.
DiscoveryTerminates == ([]~SomeFailed) => <>DiscoveryDone

\* C2 witness: discovery of an error-free tree of three directories is done.
DiscoveryTerminatesWitness ==
    /\ ~SomeFailed
    /\ DiscoveryDone
    /\ Cardinality(Dirs) >= 3
    /\ \E d \in Dirs : parent[d] > Root

\* C3: failure policy.  Once a worker has hit an I/O error the traversal is
\* aborted: every worker stops and discover_files_recursively returns the
\* error.
FailureAbortsTraversal ==
    SomeFailed ~> (AllEnded /\ discoverResult = "Err")

\* The discovery engine at rest, for the specifications of the other parts.
DiscoveryIdle ==
    /\ parent = <<0>>
    /\ fileDir = <<>>
    /\ processing_queue = <<>>
    /\ folders_to_process = 0
    /\ wpc = [w \in Workers |-> "exited"]
    /\ wpath = [w \in Workers |-> 0]
    /\ wentries = [w \in Workers |-> <<>>]
    /\ wpending = [w \in Workers |-> 0]
    /\ wfiles = [w \in Workers |-> <<>>]
    /\ output = <<>>
    /\ discoverResult = "Ok"
    /\ batches = <<<<>>>>
    /\ decremented = {}
    /\ all_files = <<>>
    /\ reporterDone = TRUE

\* The workers that hold a directory: popped, its fetch_sub not yet done.
InFlight == {w \in Workers : wpath[w] # 0}

\* C18: the outstanding-directory counter is at least the number of
\* directories in the queue plus the number being processed and never below
\* 0; so it is 0 only when the queue is empty and no directory is in flight,
\* and a worker has left the loop only when every directory was processed.
CounterTerminationSafety ==
    /\ folders_to_process >= Len(processing_queue) + Cardinality(InFlight)
    /\ folders_to_process >= 0
    /\ folders_to_process = 0 => (processing_queue = <<>> /\ InFlight = {})
    /\ \A w \in Workers :
          wpc[w] = "exited" =>
              /\ processing_queue = <<>>
              /\ InFlight = {}
              /\ decremented = Dirs

\* A sub-directory is counted and not yet pushed while two other directories
\* are queued or in flight: the counter is ahead of them.
CounterTerminationSafetyWitness ==
    /\ \E w \in Workers : wpc[w] = "push"
    /\ folders_to_process = 3
    /\ Len(processing_queue) + Cardinality(InFlight) = 2
    /\ decremented = {}

\* The files directly in directory d.
FilesIn(d) == {f \in Files : fileDir[f] = d}

\* The batch sent for d lists the files of d, each once.
BatchOf(d, batch) ==
    /\ Range(batch) = FilesIn(d)
    /\ Len(batch) = Cardinality(FilesIn(d))

\* C19: one batch is sent per processed directory, an empty one for a
\* directory without files, and it is sent before the directory's
\* decrement; the consumer sees the channel closed only when every worker
\* has ended and every batch sent has been received.
DiscoveryOutputProtocol ==
    /\ \A d \in Dirs :
          /\ Len(batches[d]) <= 1
          /\ d \in decremented => Len(batches[d]) = 1
          /\ Len(batches[d]) = 1 => BatchOf(d, batches[d][1])
    /\ reporterDone =>
          /\ AllEnded
          /\ output = <<>>
          /\ \A d \in Dirs :
                 \A f \in FilesIn(d) : Len(batches[d]) = 1 => CountIn(f, all_files) = 1

\* A traversal has finished and the consumer has seen the channel closed:
\* every directory was processed, one of them without files, one with.
DiscoveryOutputProtocolWitness ==
    /\ reporterDone
    /\ AllExited
    /\ decremented = Dirs
    /\ \E d \in Dirs : batches[d] = <<<<>>>>
    /\ \E d \in Dirs : Len(batches[d]) = 1 /\ batches[d][1] # <<>>

(***************************************************************************)
(* Properties of the encrypted channel                                     *)
(***************************************************************************)
Established == \A p \in Peers : hpc[p] = "ready"

IsPrefix(s, t) == Len(s) <= Len(t) /\ SubSeq(t, 1, Len(s)) = s

\* Within one direction the counters start at 1 and move by one per message:
\* the encrypt counter counts the messages sent, the decrypt counter the
\* frames opened.
CountersAdvance ==
    \A p \in Peers : hpc[p] = "ready" =>
        /\ keys[p].encrypt_key.nonce_sequence = NonceCounterNew + Len(sent[p])
        /\ keys[p].decrypt_key.nonce_sequence >= NonceCounterNew
        /\ keys[p].decrypt_key.nonce_sequence <=
               NonceCounterNew + Len(sent[Other(p)])

\* C8: each direction's counter starts at 1 and the first nonce used is 2,
\* and over the lifetime of a channel no nonce is used twice to seal under
\* the same key.
NonceUniquePerKey ==
    /\ \A p \in Peers :
          (hpc[p] = "ready" /\ sent[p] = <<>>) =>
              /\ keys[p].encrypt_key.nonce_sequence = 1
              /\ FromLittleEndian(advance_nonce(keys[p].encrypt_key.nonce_sequence)) = 2
    /\ \A i, j \in DOMAIN sealLog : i # j => sealLog[i] # sealLog[j]

\* C9: on every channel the handshake returns, the encrypt key and the
\* decrypt key of an end are derived from different salts, so the two
\* directions never share a key.
DirectionsIndependent ==
    \A p \in Peers : hpc[p] = "ready" =>
        /\ my_salt[p] # other_salt[p]
        /\ keys[p].encrypt_key.key # keys[p].decrypt_key.key

\* C10: in each direction of an established channel the receiver's
\* successive receive_bincode calls return the messages sent, in order: what
\* was received is a prefix of what was sent, every frame read holds exactly
\* the next message, no receive fails, and once the stream is drained the
\* two sequences are equal.
OrderedRoundTrip ==
    \A p \in Peers :
        LET q == Other(p)
        IN  /\ IsPrefix(received[q], sent[p])
            /\ rpc[q] # "panicked"
            /\ rpc[q] = "read_exact" =>
                  /\ Len(received[q]) < Len(sent[p])
                  /\ rlen[q] = Len(serialize(sent[p][Len(received[q]) + 1])) + TAG_LEN
            /\ (Established /\ spc[p] = "idle" /\ wire[q] = <<>> /\ rpc[q] = "read_u32") =>
                  received[q] = sent[p]

\* Both kinds of message cross from the client to the server and one comes
\* back, all received in order.
OrderedRoundTripWitness ==
    /\ Established
    /\ sent["client"] = <<Greeting(PROTOCOL_VERSION), Disconnect>>
    /\ received["server"] = sent["client"]
    /\ Len(sent["server"]) = 1
    /\ received["client"] = sent["server"]

\* The payload of an altered frame is never returned: the receiver has not
\* got as far as the altered frame's message.
TamperNeverYields ==
    tampered # <<>> => Len(received[tampered[1]]) < tampered[2]

\* The receive of the altered frame failed: an unwrap of receive_buffer or
\* receive_bincode panicked.
TamperFailed == tampered # <<>> /\ rpc[tampered[1]] = "panicked"

\* C11: when a byte of a frame (length prefix, ciphertext or tag) is altered
\* in transit, the receiver's receive fails and no payload is returned for
\* that frame.
TamperDetection ==
    /\ []TamperNeverYields
    /\ (tampered # <<>>) ~> TamperFailed

(***************************************************************************)
(* Properties of the server and its clients                                *)
(***************************************************************************)
Handshaking == {"write_key", "read_key", "write_salt", "read_salt"}

\* Both directions of a connection's keys are bound.
Keyed(conn) ==
    /\ conn # None
    /\ conn[1].encrypt_key.key.info = KEY_INFO
    /\ conn[1].decrypt_key.key.info = KEY_INFO
    /\ conn[1].encrypt_key.nonce_sequence >= NonceCounterNew
    /\ conn[1].decrypt_key.nonce_sequence >= NonceCounterNew

\* The server's handshake with c has failed.
ServerHandshakeFailed(c) == apc = "panicked" /\ accepted = c

\* C12: the handshake returns a channel with both directions keyed or fails
\* fatally: a connection that exists is keyed, a handshake under way or
\* failed has returned none, and the server has no session and no handler
\* for a peer whose handshake failed.
HandshakeAllOrNothing ==
    \A c \in Clients :
        /\ connection[c] # None => Keyed(connection[c])
        /\ client_connection[c] # None => Keyed(client_connection[c])
        /\ (c \in sessions \/ handler[c] # "none") => Keyed(connection[c])
        /\ (apc \in Handshaking /\ accepted = c) => connection[c] = None
        /\ ServerHandshakeFailed(c) =>
              /\ connection[c] = None
              /\ c \notin sessions
              /\ handler[c] = "none"
        /\ cpc[c] \in Handshaking \cup {"panicked"} =>
              /\ client_connection[c] = None
              /\ client_sent[c] = <<>>
        /\ cpc[c] \in {"connected", "dropped", "exited"} => Keyed(client_connection[c])

\* One connection is established and registered, the handshake with another
\* peer has failed on the server, and a client's own handshake has failed.
HandshakeAllOrNothingWitness ==
    \E c, d \in Clients :
        /\ c # d
        /\ d \in sessions
        /\ Keyed(connection[d])
        /\ Keyed(client_connection[d])
        /\ ServerHandshakeFailed(c)
        /\ cpc[c] = "panicked"

\* The Greetings the handler of c has received, and the responses it has
\* written (a client never reads past the handshake).
GreetingsHandled(c) ==
    LET IsGreeting(object) == object # Disconnect
    IN  SelectSeq(handled[c], IsGreeting)

Responses(c) ==
    LET IsFrame(item) == item.kind = "frame"
    IN  SelectSeq(to_client[c], IsFrame)

\* The response the protocol version of a Greeting calls for.
ExpectedResponse(greeting) ==
    IF greeting[2] = PROTOCOL_VERSION THEN ProtocolOk ELSE UnsupportedProtocol

\* C13: every Greeting the server receives gets exactly one
\* GreetingResponse: ProtocolOk when its protocol_version is
\* PROTOCOL_VERSION, UnsupportedProtocol otherwise.
GreetingValidated ==
    \A c \in Clients :
        /\ Len(Responses(c)) =
               Len(GreetingsHandled(c)) - (IF handler[c] = "respond" THEN 1 ELSE 0)
        /\ \A i \in DOMAIN Responses(c) :
               Responses(c)[i].object = ExpectedResponse(GreetingsHandled(c)[i])

\* Every client has connected, sent its messages and its Disconnect, and the
\* accept loop has received the ControlMessage::Disconnect of each.
AllDisconnectsProcessed ==
    /\ disconnected = Clients
    /\ \A c \in Clients : handler[c] = "returned" /\ dpc[c] = "done"

\* C14: once the server has processed the Disconnect of every client, the
\* session registry is empty.
RegistryConsistent == AllDisconnectsProcessed => sessions = {}

\* c is the only client, Client::connect has returned for it and it has sent
\* a Greeting; no handshake has failed.
SingleClientGreeted(c) ==
    /\ \A d \in Clients \ {c} : cpc[d] = "start"
    /\ cpc[c] \in {"connected", "dropped", "exited"}
    /\ Greetings(c) # {}
    /\ apc # "panicked"

\* C15: once Client::connect has returned for a single client and the client
\* has sent a Greeting, a read of the registry observes exactly one session
\* (tests/server_client.rs:28-29).
RegistrationVisible ==
    \A c \in Clients : SingleClientGreeted(c) => Cardinality(sessions) = 1

\* Disconnect was sent on c's channel once, after every other message.
DisconnectSent(c) ==
    /\ client_sent[c] # <<>>
    /\ client_sent[c][Len(client_sent[c])] = Disconnect
    /\ Cardinality(Greetings(c)) = Len(client_sent[c]) - 1

\* C16: when a connected Client has gone out of scope, Disconnect has been
\* sent on its channel, once and after every message sent before; the send
\* is not left to a task that may run later or never.
DisconnectOnRelease ==
    \A c \in Clients : cpc[c] \in {"dropped", "exited"} => DisconnectSent(c)

\* A handler ends in a panic only over its own connection: a frame of it was
\* corrupted, or its client closed the stream.
OnlyOwnFaults ==
    \A c \in Clients : handler[c] = "panicked" => (corrupted = c \/ StreamClosed(c))

\* The step in which the handler of c panics leaves every other session as
\* it was: its handler, its keys and nonce counters, its streams, and the
\* accept loop and the registry.
PanicLeavesOthers ==
    \A c \in Clients :
        (handler[c] # "panicked" /\ handler'[c] = "panicked") =>
            /\ \A d \in Clients \ {c} :
                   /\ handler'[d] = handler[d]
                   /\ connection'[d] = connection[d]
                   /\ client_connection'[d] = client_connection[d]
                   /\ to_server'[d] = to_server[d]
                   /\ to_client'[d] = to_client[d]
                   /\ handled'[d] = handled[d]
            /\ apc' = apc
            /\ sessions' = sessions
            /\ control' = control

\* C17: a corrupted frame on one connection ends only that connection's
\* handler; the handlers, channels and nonce counters of the other sessions
\* are unchanged by it, and no other handler ends because of it.
FaultIsolation == []OnlyOwnFaults /\ [][PanicLeavesOthers]_vars

\* The handler of c has panicked over a corrupted frame, and the handler of
\* another session has received its client's Greeting and Disconnect and
\* returned.
FaultIsolationWitness ==
    \E c, d \in Clients :
        /\ c # d
        /\ corrupted = c
        /\ handler[c] = "panicked"
        /\ ~StreamClosed(c)
        /\ handler[d] = "returned"
        /\ handled[d] = <<Greeting(PROTOCOL_VERSION), Disconnect>>
        /\ connection[d][1].decrypt_key.nonce_sequence = NonceCounterNew + 2

\* C20: the accept loop inserts the Session before it spawns the handler:
\* whenever the handler of an address is running, has ended or has received
\* a message, the registry holds an entry for that address (entries are
\* never removed, so what the registry has contained it contains).
RegistrationPrecedesHandling ==
    \A c \in Clients :
        (handler[c] # "none" \/ handled[c] # <<>>) => c \in sessions

\* The handler of a registered address has received a Greeting while the
\* accept loop has the next connection in hand, not yet registered.
RegistrationPrecedesHandlingWitness ==
    \E c, d \in Clients :
        /\ c # d
        /\ handler[c] = "respond"
        /\ handled[c] # <<>>
        /\ c \in sessions
        /\ accepted = d
        /\ apc = "insert"
        /\ handler[d] = "none"
        /\ d \notin sessions

\* The state of the session of c, read off the position of its handler and
\* the registry: Connecting until the handler is spawned, Established while
\* the handler receives and responds, Disconnecting from the receipt of
\* Disconnect until the entry is removed, Closed after that.  A handler that
\* panicked has left the state machine.
SessionState(c) ==
    CASE handler[c] = "none" -> "Connecting"
      [] handler[c] \in {"receive", "respond"} -> "Established"
      [] handler[c] = "send_control" -> "Disconnecting"
      [] handler[c] = "returned" /\ c \in sessions -> "Disconnecting"
      [] handler[c] = "returned" /\ c \notin sessions -> "Closed"
      [] handler[c] = "panicked" -> "Failed"

StateRank(state) ==
    CASE state = "Connecting" -> 1
      [] state = "Established" -> 2
      [] state = "Disconnecting" -> 3
      [] state = "Closed" -> 4
      [] state = "Failed" -> 5

\* The ControlMessage::Disconnect(c) sent so far: those still in the channel
\* and the one the accept loop has matched.
ControlCount(c) ==
    Cardinality({i \in DOMAIN control : control[i] = ControlDisconnect(c)})
        + (IF c \in disconnected THEN 1 ELSE 0)

DisconnectHandled(c) == Disconnect \in Range(handled[c])

\* No step moves a session back.
SessionMovesForward ==
    \A c \in Clients :
        StateRank(SessionState(c)') >= StateRank(SessionState(c))

\* After the handler of c has received Disconnect it receives no message and
\* sends no response, and the only control message it sends is the one
\* Disconnect for c.
QuietAfterDisconnect ==
    \A c \in Clients :
        DisconnectHandled(c) =>
            /\ handled'[c] = handled[c]
            /\ Responses(c)' = Responses(c)
            /\ ControlCount(c)' >= ControlCount(c)
            /\ ControlCount(c)' <= 1

\* The order of the session states and the silence after Disconnect, without
\* the obligation to send the control message.
SessionOrder == [][SessionMovesForward /\ QuietAfterDisconnect]_vars

\* A handler sends ControlMessage::Disconnect(c) for its own address only,
\* not before it has received Disconnect, and has sent exactly one when it
\* ends after receiving Disconnect.
DisconnectAnnouncedOnce ==
    \A c \in Clients :
        /\ (~DisconnectHandled(c) \/ handler[c] = "send_control")
               => ControlCount(c) = 0
        /\ (DisconnectHandled(c) /\ handler[c] # "send_control")
               => ControlCount(c) = 1

\* C21: a session moves only Connecting -> Established -> Disconnecting ->
\* Closed and never back; once a handler has received Disconnect it sends
\* exactly one Disconnect control message, for its own address, and after
\* that receives no message and sends no response on that connection.
SessionLinear == SessionOrder /\ []DisconnectAnnouncedOnce

\* The handshake bytes p has written: those waiting in the peer's socket and
\* those the peer's handshake has read (before p sends its first frame).
HandshakeBytesRead(p) ==
    CASE hpc[p] \in {"exchange_keys", "read_key"} -> 0
      [] hpc[p] \in {"exchange_salt", "read_salt"} -> PUBLIC_KEY_LEN
      [] hpc[p] = "ready" -> PUBLIC_KEY_LEN + SALT_LEN

HandshakeBytesWritten(p) == Len(wire[Other(p)]) + HandshakeBytesRead(Other(p))

\* Each peer writes its public key before it reads, and its salt before it
\* reads the peer's salt.
WritesBeforeReads ==
    \A p \in Peers : (sent[p] = <<>> /\ spc[p] = "idle") =>
        HandshakeBytesWritten(p) =
            CASE hpc[p] = "exchange_keys" -> 0
              [] hpc[p] \in {"read_key", "exchange_salt"} -> PUBLIC_KEY_LEN
              [] hpc[p] \in {"read_salt", "ready"} -> PUBLIC_KEY_LEN + SALT_LEN

\* What a peer has read is what the other wrote: the 32 bytes of its public
\* key, then the 32 bytes of its salt.
ReadWhatPeerWrote ==
    \A p \in Peers :
        /\ hpc[p] \in {"exchange_salt", "read_salt", "ready"} =>
               /\ Len(peer_public_key[p]) = 32
               /\ peer_public_key[p] = compute_public_key(my_private_key[Other(p)])
        /\ hpc[p] = "ready" =>
               /\ Len(other_salt[p]) = 32
               /\ other_salt[p] = my_salt[Other(p)]

\* C22: the handshake needs no turn order and cannot deadlock: each peer
\* writes its public key before reading the peer's and its salt before
\* reading the peer's, and in every interleaving both peers complete the
\* handshake, each having read exactly the 32 key bytes and the 32 salt
\* bytes the other wrote.
HandshakeCompletes ==
    /\ []WritesBeforeReads
    /\ []ReadWhatPeerWrote
    /\ <>Established

\* Both handshakes have completed with different private keys and different
\* salts, every handshake byte was read, and no frame has been sent yet.
HandshakeCompletesWitness ==
    /\ Established
    /\ my_private_key["client"] # my_private_key["server"]
    /\ my_salt["client"] # my_salt["server"]
    /\ \A p \in Peers :
           /\ wire[p] = <<>>
           /\ sent[p] = <<>>
           /\ peer_public_key[p] = compute_public_key(my_private_key[Other(p)])
           /\ other_salt[p] = my_salt[Other(p)]

\* The counters of the direction from p to its peer.
EncryptCounter(p) == keys[p].encrypt_key.nonce_sequence

DecryptCounter(p) == keys[p].decrypt_key.nonce_sequence

\* In each direction of an established channel the receiver's decrypt
\* counter is never ahead of the sender's encrypt counter, they differ by
\* the number of frames sent and not yet opened, and the two ends hold the
\* same key for the direction.
CountersInLockstep ==
    \A p \in Peers :
        LET q == Other(p)
        IN  Established =>
                /\ DecryptCounter(q) <= EncryptCounter(p)
                /\ EncryptCounter(p) - DecryptCounter(q) =
                       Len(sent[p]) - Len(received[q])
                /\ keys[p].encrypt_key.key = keys[q].decrypt_key.key

\* The step that seals the k-th frame of a direction uses the nonce k + 1.
SealsWithNextNonce ==
    \A p \in Peers :
        Len(sent'[p]) > Len(sent[p]) =>
            LET k == Len(sent'[p])
            IN  /\ EncryptCounter(p)' = k + 1
                /\ sealLog'[Len(sealLog')] =
                       [key |-> keys[p].encrypt_key.key,
                        nonce |-> LittleEndian(k + 1, 8) \o LittleEndian(0, 4)]

\* The step that opens the k-th frame of a direction uses the nonce k + 1
\* under the receiver's decrypt key, the key and nonce the sender sealed the
\* k-th frame with, and yields the k-th message sent.
OpensWithSealNonce ==
    \A p \in Peers :
        LET q == Other(p)
        IN  (hpc[q] = "ready" /\ DecryptCounter(q)' # DecryptCounter(q)) =>
                LET k == Len(received[q]) + 1
                IN  /\ DecryptCounter(q)' = k + 1
                    /\ keys[q].decrypt_key.key = keys[p].encrypt_key.key
                    /\ [key |-> keys[q].decrypt_key.key,
                        nonce |-> LittleEndian(k + 1, 8) \o LittleEndian(0, 4)]
                           \in Range(sealLog)
                    /\ received'[q] = Append(received[q], sent[p][k])

\* C23: the two ends of each direction keep their nonce counters in
\* lockstep: the decrypt counter never exceeds the encrypt counter, the
\* difference is the number of frames sent and not yet opened, the k-th
\* frame is opened with the nonce k + 1 and the key it was sealed with, and
\* the sender's encrypt key is the receiver's decrypt key.
NonceLockstep ==
    /\ []CountersInLockstep
    /\ [][SealsWithNextNonce /\ OpensWithSealNonce]_vars

\* The client has sent three frames and the server has opened the first two:
\* the counters stand at 4 and 3.
NonceLockstepWitness ==
    /\ Established
    /\ Len(sent["client"]) = 3
    /\ Len(received["server"]) = 2
    /\ EncryptCounter("client") = 4
    /\ DecryptCounter("server") = 3

\* c has connected and waits in the listener's queue to be accepted.
AwaitingAccept(c) == \E i \in DOMAIN listener : listener[i] = c

\* The ControlMessage::Disconnect of c's handler waits in the channel.
ControlPending(c) == \E i \in DOMAIN control : control[i] = ControlDisconnect(c)

\* C24: the accept loop stays responsive while the handshake of an accepted
\* connection is stalled or has failed: every other incoming connection is
\* accepted, every Disconnect control message of a handler is received, and
\* no handler waits for ever to send on the control channel.
AcceptLoopResponsive ==
    \A c \in Clients :
        /\ AwaitingAccept(c) ~> ~AwaitingAccept(c)
        /\ ControlPending(c) ~> (c \in disconnected)
        /\ (handler[c] = "send_control") ~> (handler[c] # "send_control")

(***************************************************************************)
(* Specifications                                                          *)
(***************************************************************************)
\* File discovery (bin/server.rs:25-51).
Init == DiscoveryInit /\ PlanIdle /\ ChannelIdle /\ ServerIdle

Next == DiscoveryNext

Spec == Init /\ [][Next]_vars

\* The tokio runtime polls every spawned task that is ready, and yield_now
\* (transfer.rs:92) hands the scheduler slot to the other tasks.
LiveSpec ==
    /\ Spec
    /\ \A w \in Workers : WF_vars(Worker(w))
    /\ WF_vars(JoinAll)
    /\ WF_vars(Recv)

\* TransferPlan::create over its inputs.
PlanSpecInit == PlanInit /\ DiscoveryIdle /\ ChannelIdle /\ ServerIdle

PlanSpec == PlanSpecInit /\ [][PlanNext]_vars

\* One encrypted connection between a client and the server.
ChannelSpecInit == ChannelInit /\ DiscoveryIdle /\ PlanIdle /\ ServerIdle

ChannelSpec == ChannelSpecInit /\ [][ChannelNext]_vars

\* Each peer awaits EncryptedStream::new (crypto.rs:169-177) in a running
\* task: a write is always possible, and a read_exact is polled when its
\* bytes have arrived.
ChannelLiveSpec ==
    /\ ChannelSpec
    /\ \A p \in Peers : /\ WF_vars(ExchangeKeysWrite(p))
                        /\ WF_vars(ExchangeKeysRead(p))
                        /\ WF_vars(ExchangeSaltWrite(p))
                        /\ WF_vars(ExchangeSaltRead(p))

\* The same connection over a network that alters one byte of one frame.
TamperSpecInit == EstablishedInit /\ DiscoveryIdle /\ PlanIdle /\ ServerIdle

TamperSpec == TamperSpecInit /\ [][TamperNext]_vars

\* The server, its clients and the connections between them.
ServerSpecInit == ServerInit /\ DiscoveryIdle /\ PlanIdle /\ ChannelIdle

ServerSpec == ServerSpecInit /\ [][ServerNext]_vars

\* The accept loop task and the handler tasks are scheduled whenever they
\* can take a step (server.rs:106, 122); a client is under no obligation to
\* take its next step, and no failure is bound to happen.
ServerLiveSpec ==
    /\ ServerSpec
    /\ WF_vars(Accept)
    /\ WF_vars(ServerWriteKey)
    /\ WF_vars(ServerReadKey)
    /\ WF_vars(ServerWriteSalt)
    /\ WF_vars(ServerReadSalt)
    /\ WF_vars(Insert)
    /\ WF_vars(SpawnHandler)
    /\ WF_vars(RecvControl)
    /\ \A c \in Clients : /\ WF_vars(HandlerReceive(c))
                          /\ WF_vars(HandlerReceiveEof(c))
                          /\ WF_vars(HandlerRespond(c))
                          /\ WF_vars(HandlerDisconnect(c))

\* A peer blocked in receive_buffer is polled when its bytes arrive, and a
\* send_buffer that has written the length goes on to write the buffer.
TamperLiveSpec ==
    /\ TamperSpec
    /\ \A p \in Peers : /\ WF_vars(ReceiveLength(p))
                        /\ WF_vars(ReceiveBincode(p))
                        /\ WF_vars(SendWriteAll(p))

====
